---- MODULE Spec2Model ----
(***************************************************************************)
(* Model of the market heatmap of the dashboard (SungYil/MCA frontend).    *)
(*                                                                         *)
(*   - MarketMap (src/unnamed/part_003): the FINVIZ-style categorized      *)
(*     treemap.  One render pass groups the snapshot by sector, sums the   *)
(*     weights, sorts sectors and items by weight and emits one flex box   *)
(*     per sector and per item with a declared width in percent.           *)
(*   - MarketMap (src/frontend/components/MarketMap.tsx): the Recharts     *)
(*     variant: the same empty-input guard, a one-root tree of the items   *)
(*     and the colour chain of CustomizedContent.                          *)
(*                                                                         *)
(* Numbers: weights are integers; a declared width is the exact rational   *)
(* [num, den] of the JavaScript expression (floating-point rounding        *)
(* aside); den = 0 stands for the non-finite result of a division by 0.    *)
(* A percentage change is a JavaScript value: a number counted in units of *)
(* 1/PctUnit percent, NaN, +Infinity, -Infinity or undefined.              *)
(***************************************************************************)
EXTENDS Integers, Sequences, FiniteSets, TLC

VARIABLES
    data,           \* the `data` prop: [isNull, items]
    view,           \* what MarketMap (part_003) returned: "unrendered", "nodata", "layout"
    sectors,        \* local `sectors` after the pass: sector key -> bucket (after the in-place sort)
    sectorWeights,  \* local `sectorWeights`: sector key -> summed weight
    sortedSectors,  \* local `sortedSectors`: the sector keys in render order
    layout,         \* the emitted sector boxes, in DOM order
    prevLayout,     \* the sector boxes emitted by the pass before this one
    prevView,       \* what the pass before this one returned
    treeView,       \* what MarketMap (Recharts variant) returned: "unrendered", "nodata", "treemap"
    treeData,       \* the children of the "Market" root handed to <Treemap>
    percent,        \* colour check: the percentage change handed to the colour mappers
    bgColor,        \* colour check: the result of getBgColor, "" before the call
    fill,           \* colour check: the result of CustomizedContent's chain, "" before the call
    inFlight,       \* Home: the number of dashboard requests that have not answered yet
    hoveredTicker,  \* the item box of MarketMap (part_003) under the pointer, "" for none
    tooltip,        \* the title tooltip on display: [shown, text]
    activeNode,     \* Recharts variant: the Tooltip's payload, <<>> while no leaf is active
    treeTooltip,    \* Recharts variant: what the Tooltip content callback rendered
    pointer,        \* the last pointer event delivered: [event, on, target]
    query,          \* TickerSearch: the text of the input
    results,        \* TickerSearch: the result list, with the request it answers: [v, q, items]
    showDropdown,   \* TickerSearch: the dropdown flag
    timers,         \* TickerSearch: the pending debounce timers, each with the query it closed over
    searches,       \* TickerSearch: the search requests that have not answered yet
    version,        \* TickerSearch: how many times the query has changed
    lastInput,      \* TickerSearch: the user's last input: "none", "edit", "select"
    token,          \* PortfolioPage: whether localStorage holds a token
    route,          \* PortfolioPage: where the router is: "/portfolio", "/login"
    activeTab,      \* PortfolioPage: "holdings", "analysis", "dividends"
    holdings,       \* PortfolioPage: items, as the set of the tickers held
    dividendData,   \* PortfolioPage: [isNull, rev]: the server revision the projection was made from
    analysis,       \* PortfolioPage: "null" or "report"
    analyzing,      \* PortfolioPage: the analyzing flag
    loading,        \* PortfolioPage: the loading flag
    loadingDiv,     \* PortfolioPage: the loadingDiv flag
    error,          \* PortfolioPage: whether an error message is set
    formTicker,     \* PortfolioPage: the form field ticker
    shares,         \* PortfolioPage: the form field shares
    avgCost,        \* PortfolioPage: the form field avgCost
    editingTicker,  \* PortfolioPage: the ticker being edited, "" for null
    requests,       \* PortfolioPage: the requests under way, sent or answered by the server
    serverHoldings, \* the server: the tickers of the user's portfolio
    serverRev,      \* the server: how many mutations of the portfolio it has accepted
    ackRev,         \* PortfolioPage: the revision of the latest mutation it has seen succeed
    step,           \* OnboardingModal: the step of the wizard
    answers,        \* OnboardingModal: the answers given so far
    isOpen,         \* OnboardingModal: the isOpen prop
    profileRequests, \* OnboardingModal: the profile requests under way
    isInWatchlist,  \* StockDetailPage: the star
    serverWatched,  \* the server: whether the ticker is on the watchlist
    watchRequests   \* StockDetailPage: the watchlist requests under way

mapVars   == <<data, view, sectors, sectorWeights, sortedSectors, layout, prevLayout, prevView,
               treeView, treeData>>
colorVars == <<percent, bgColor, fill>>
hoverVars == <<hoveredTicker, tooltip, activeNode, treeTooltip, pointer>>
searchVars == <<query, results, showDropdown, timers, searches, version, lastInput>>
heatmapVars == <<mapVars, colorVars, hoverVars, inFlight>>
formVars  == <<formTicker, shares, avgCost, editingTicker>>
portfolioVars == <<token, route, activeTab, holdings, dividendData, analysis, analyzing, loading,
                   loadingDiv, error, formVars, requests, serverHoldings, serverRev, ackRev>>
wizardVars == <<step, answers, isOpen, profileRequests>>
watchVars == <<isInWatchlist, serverWatched, watchRequests>>
appVars   == <<searchVars, portfolioVars, wizardVars, watchVars>>
vars      == <<data, view, sectors, sectorWeights, sortedSectors, layout, prevLayout, prevView,
               treeView, treeData, percent, bgColor, fill, inFlight,
               hoveredTicker, tooltip, activeNode, treeTooltip, pointer,
               query, results, showDropdown, timers, searches, version, lastInput,
               token, route, activeTab, holdings, dividendData, analysis, analyzing, loading,
               loadingDiv, error, formTicker, shares, avgCost, editingTicker, requests,
               serverHoldings, serverRev, ackRev,
               step, answers, isOpen, profileRequests,
               isInWatchlist, serverWatched, watchRequests>>

----------------------------------------------------------------------------
(* Bounds of the model and constants of the program *)

MaxWeight == 2      \* weights range over 0..MaxWeight
PctUnit   == 10     \* a percentage change is counted in 1/PctUnit percent
MaxPct    == 5      \* percentage changes range over -MaxPct..MaxPct percent
MaxInFlight == 2    \* at most MaxInFlight dashboard requests are under way at once
MaxEdits  == 3      \* the query of TickerSearch changes at most MaxEdits times
MaxRequests == 2    \* PortfolioPage has at most MaxRequests requests under way at once
MaxMutations == 2   \* the server accepts at most MaxMutations mutations of the portfolio

StrongThreshold == 3    \* `percent > 3`, `percent > -3`
MildThreshold   == 1    \* `percent > 1`, `percent > -1` (Recharts variant)
PercentScale    == 100  \* `(sectorTotalWeight / totalMarketWeight) * 100`

Tickers == {"AAPL", "MSFT", "XOM"}

Undefined == "undefined"                          \* an absent `sector?`
\* Sector names are ordinary names: none is integer-like (Object.keys would list it
\* first) and none names a property of Object.prototype (`!sectors[s]` would miss it).
Sectors   == {Undefined, "", "Energy", "Tech"}
Weights   == 0 .. MaxWeight

----------------------------------------------------------------------------
(* JavaScript numbers as far as the colour mappers see them *)

Num(v)   == [kind |-> "num", v |-> v]
NaN      == [kind |-> "nan", v |-> 0]
PosInf   == [kind |-> "posinf", v |-> 0]
NegInf   == [kind |-> "neginf", v |-> 0]
UndefPct == [kind |-> "undefined", v |-> 0]

Finite   == {Num(v) : v \in (0 - MaxPct * PctUnit) .. (MaxPct * PctUnit)}
JSValues == Finite \cup {NaN, PosInf, NegInf, UndefPct}

\* p > k, k a whole number of percent: false whenever p is NaN or undefined
Gt(p, k) ==
    CASE p.kind = "num"    -> p.v > k * PctUnit
      [] p.kind = "posinf" -> TRUE
      [] OTHER             -> FALSE

\* p === 0
IsZero(p) == p.kind = "num" /\ p.v = 0

----------------------------------------------------------------------------
(* The snapshot *)

\* the day's change of each ticker of the universe, in percent
ChangeOf(t) ==
    CASE t = "AAPL" -> Num(2 * PctUnit)
      [] t = "XOM"  -> Num(0 - PctUnit)
      [] OTHER      -> Num(0)

Items == {[ticker |-> t, weight |-> w, change_percent |-> ChangeOf(t), sector |-> s] :
            t \in Tickers, w \in Weights, s \in Sectors}

RECURSIVE SeqsOver(_, _)
\* the sequences of items with pairwise distinct tickers taken from ts, of length <= n
SeqsOver(ts, n) ==
    IF n = 0 \/ ts = {} THEN {<<>>}
    ELSE {<<>>} \cup
         UNION {{<<i>> \o rest : rest \in SeqsOver(ts \ {i.ticker}, n - 1)} :
                  i \in {j \in Items : j.ticker \in ts}}

Snapshots == {[isNull |-> TRUE, items |-> <<>>]} \cup
             {[isNull |-> FALSE, items |-> s] : s \in SeqsOver(Tickers, Cardinality(Tickers))}

----------------------------------------------------------------------------
(* MarketMap, src/unnamed/part_003: one render pass *)

\* variant of IsEmptyInput: only `!data`, the length test forgotten
IsEmptyInput_nullOnly(d) == d.isNull

\* `!data || data.length === 0`
IsEmptyInput(d) == d.isNull \/ Len(d.items) = 0

\* `item.sector || "Others"`: undefined and the empty string are both falsy
SectorKey(item) ==
    IF item.sector = Undefined \/ item.sector = "" THEN "Others" ELSE item.sector

EmptyMap    == [k \in {} |-> 0]
EmptyGroups == [keys |-> <<>>, sectors |-> EmptyMap, sectorWeights |-> EmptyMap]

\* variant of GroupStep: an existing bucket is overwritten instead of pushed to
GroupStep_overwrite(acc, item) ==
    LET s == IF item.sector = Undefined \/ item.sector = "" THEN "Others" ELSE item.sector IN
    IF s \notin DOMAIN acc.sectors
    THEN [keys          |-> Append(acc.keys, s),
          sectors       |-> acc.sectors @@ (s :> <<item>>),
          sectorWeights |-> acc.sectorWeights @@ (s :> 0 + item.weight)]
    ELSE [keys          |-> acc.keys,
          sectors       |-> [acc.sectors EXCEPT ![s] = <<item>>],
          sectorWeights |-> [acc.sectorWeights EXCEPT ![s] = @ + item.weight]]

\* variant of GroupStep: a new bucket's total starts at 0 and the `+=` is skipped for the
\* item that opens the bucket
GroupStep_firstWeightLost(acc, item) ==
    LET s == IF item.sector = Undefined \/ item.sector = "" THEN "Others" ELSE item.sector IN
    IF s \notin DOMAIN acc.sectors
    THEN [keys          |-> Append(acc.keys, s),
          sectors       |-> acc.sectors @@ (s :> <<item>>),
          sectorWeights |-> acc.sectorWeights @@ (s :> 0)]
    ELSE [keys          |-> acc.keys,
          sectors       |-> [acc.sectors EXCEPT ![s] = Append(@, item)],
          sectorWeights |-> [acc.sectorWeights EXCEPT ![s] = @ + item.weight]]

\* variant of GroupStep: the push is in the else branch, so the item that opens a bucket
\* is not put into it
GroupStep_openerNotPushed(acc, item) ==
    LET s == IF item.sector = Undefined \/ item.sector = "" THEN "Others" ELSE item.sector IN
    IF s \notin DOMAIN acc.sectors
    THEN [keys          |-> Append(acc.keys, s),
          sectors       |-> acc.sectors @@ (s :> <<>>),
          sectorWeights |-> acc.sectorWeights @@ (s :> 0 + item.weight)]
    ELSE [keys          |-> acc.keys,
          sectors       |-> [acc.sectors EXCEPT ![s] = Append(@, item)],
          sectorWeights |-> [acc.sectorWeights EXCEPT ![s] = @ + item.weight]]

\* one iteration of data.forEach: keys is the insertion order Object.keys reports
GroupStep(acc, item) ==
    LET s == SectorKey(item) IN
    IF s \notin DOMAIN acc.sectors
    THEN [keys          |-> Append(acc.keys, s),
          sectors       |-> acc.sectors @@ (s :> <<item>>),
          sectorWeights |-> acc.sectorWeights @@ (s :> 0 + item.weight)]
    ELSE [keys          |-> acc.keys,
          sectors       |-> [acc.sectors EXCEPT ![s] = Append(@, item)],
          sectorWeights |-> [acc.sectorWeights EXCEPT ![s] = @ + item.weight]]

RECURSIVE GroupFrom(_, _)
GroupFrom(acc, items) ==
    IF items = <<>> THEN acc
    ELSE GroupFrom(GroupStep(acc, Head(items)), Tail(items))

GroupBySector(items) == GroupFrom(EmptyGroups, items)

RECURSIVE InsertDesc(_, _)
\* x goes behind every element that is not lighter than x (Array.prototype.sort is stable)
InsertDesc(sorted, x) ==
    IF sorted = <<>> THEN <<x>>
    ELSE IF Head(sorted).weight >= x.weight
         THEN <<Head(sorted)>> \o InsertDesc(Tail(sorted), x)
         ELSE <<x>> \o sorted

RECURSIVE StableSortDesc(_)
\* sort((a, b) => b.weight - a.weight)
StableSortDesc(s) ==
    IF s = <<>> THEN <<>>
    ELSE InsertDesc(StableSortDesc(SubSeq(s, 1, Len(s) - 1)), s[Len(s)])

\* `Object.keys(sectors).sort((a, b) => sectorWeights[b] - sectorWeights[a])`
SortSectors(keys, weights) ==
    LET tagged == [i \in 1 .. Len(keys) |-> [name |-> keys[i], weight |-> weights[keys[i]]]]
        sorted == StableSortDesc(tagged)
    IN  [i \in 1 .. Len(sorted) |-> sorted[i].name]

\* `sectors[sectorName].sort((a, b) => b.weight - a.weight)`
SortItems(bucket) == StableSortDesc(bucket)

RECURSIVE SumSeq(_)
SumSeq(s) == IF s = <<>> THEN 0 ELSE Head(s) + SumSeq(Tail(s))

\* `Object.values(sectorWeights).reduce((a, b) => a + b, 0)`
TotalMarketWeight(keys, weights) == SumSeq([i \in 1 .. Len(keys) |-> weights[keys[i]]])

\* variant of getBgColor: `percent >= 3` in the first test
getBgColor_ge(p) ==
    IF Gt(p, StrongThreshold) \/ (p.kind = "num" /\ p.v = StrongThreshold * PctUnit)
    THEN "bg-[#0a4d3c]"
    ELSE IF Gt(p, 0) THEN "bg-[#147a61]"
    ELSE IF IsZero(p) THEN "bg-[#2d3748]"
    ELSE IF Gt(p, 0 - StrongThreshold) THEN "bg-[#82202b]"
    ELSE "bg-[#5c131a]"

\* getBgColor
getBgColor(p) ==
    IF Gt(p, StrongThreshold) THEN "bg-[#0a4d3c]"
    ELSE IF Gt(p, 0) THEN "bg-[#147a61]"
    ELSE IF IsZero(p) THEN "bg-[#2d3748]"
    ELSE IF Gt(p, 0 - StrongThreshold) THEN "bg-[#82202b]"
    ELSE "bg-[#5c131a]"

\* the sector box's `width`: `${sectorWidthPercent * 1.5}%`, 1.5 = 3/2
SectorWidth(sectorTotalWeight, totalMarketWeight) ==
    [num |-> sectorTotalWeight * PercentScale * 3, den |-> totalMarketWeight * 2]

\* the item box's `width`: `${(item.weight / sectorTotalWeight) * 100}%`
ItemWidth(weight, sectorTotalWeight) ==
    [num |-> weight * PercentScale, den |-> sectorTotalWeight]

\* one item box of sectorItems.map
\* variant of ItemTitle: the title names the item's sector
ItemTitle_sector(item) == <<item.sector, ": ", item.change_percent, "%">>

\* title={`${item.ticker}: ${item.change_percent}%`}, as the pieces of the template
ItemTitle(item) == <<item.ticker, ": ", item.change_percent, "%">>

ItemBox(item, sectorTotalWeight) ==
    [ticker    |-> item.ticker,
     title     |-> ItemTitle(item),
     className |-> getBgColor(item.change_percent),
     flexGrow  |-> item.weight,
     width     |-> ItemWidth(item.weight, sectorTotalWeight)]

\* sectorItems.map(item => ...): one box per item, in the order of sectorItems
ItemBoxes(sectorItems, sectorTotalWeight) ==
    [j \in 1 .. Len(sectorItems) |-> ItemBox(sectorItems[j], sectorTotalWeight)]

\* one sector box of sortedSectors.map
SectorBox(sectorName, grp, totalMarketWeight) ==
    LET sectorItems       == SortItems(grp.sectors[sectorName])
        sectorTotalWeight == grp.sectorWeights[sectorName]
    IN  [name     |-> sectorName,
         flexGrow |-> sectorTotalWeight,
         width    |-> SectorWidth(sectorTotalWeight, totalMarketWeight),
         items    |-> ItemBoxes(sectorItems, sectorTotalWeight)]

\* variant of SectorBoxes: maps Object.keys(sectors) instead of sortedSectors
SectorBoxes_insertionOrder(sorted, grp, totalMarketWeight) ==
    [i \in 1 .. Len(grp.keys) |-> SectorBox(grp.keys[i], grp, totalMarketWeight)]

\* sortedSectors.map(sectorName => ...): one box per sector, in the order of sortedSectors
SectorBoxes(sorted, grp, totalMarketWeight) ==
    [i \in 1 .. Len(sorted) |-> SectorBox(sorted[i], grp, totalMarketWeight)]

\* variant of FlowOffset: every box starts at the container's left edge
FlowOffset_stacked(boxes, i) == 0

\* The boxes of one flex row container (`flex flex-wrap`) lie side by side in DOM order:
\* box i starts where the declared widths of the boxes before it end.  Coordinates are
\* numerators over the boxes' common denominator den, so the container's extent
\* PercentScale is PercentScale * den in these units, along both axes.
FlowOffset(boxes, i) == SumSeq([j \in 1 .. (i - 1) |-> boxes[j].width.num])

\* the rect each box is given by its declared width: its width along the row, the whole
\* extent of the container across it
FlowRects(boxes) ==
    [i \in 1 .. Len(boxes) |->
        [x   |-> FlowOffset(boxes, i),
         y   |-> 0,
         w   |-> boxes[i].width.num,
         h   |-> PercentScale * boxes[i].width.den,
         den |-> boxes[i].width.den]]

\* variant of DataAfterPass: the pass sorts the `data` array itself in place
DataAfterPass_sortedInPlace(d) == [d EXCEPT !.items = StableSortDesc(@)]

\* the prop after a pass: the pass pushes the items into fresh bucket arrays and sorts
\* those, the `data` array itself is only read
DataAfterPass(d) == d

\* the whole pass over a non-empty snapshot
Aggregate(items) ==
    LET grp    == GroupBySector(items)
        sorted == SortSectors(grp.keys, grp.sectorWeights)
        total  == TotalMarketWeight(grp.keys, grp.sectorWeights)
    IN  [sectors           |-> [k \in DOMAIN grp.sectors |-> SortItems(grp.sectors[k])],
         sectorWeights     |-> grp.sectorWeights,
         sortedSectors     |-> sorted,
         totalMarketWeight |-> total,
         layout            |-> SectorBoxes(sorted, grp, total)]

----------------------------------------------------------------------------
(* MarketMap, src/frontend/components/MarketMap.tsx: the Recharts variant *)

\* `!data || data.length === 0` (the Recharts variant's own guard)
TreemapIsEmptyInput(d) == d.isNull \/ Len(d.items) = 0

\* `data.map(item => ({ name: item.ticker, size: item.weight, ...item }))`
TreeChildren(items) ==
    [i \in 1 .. Len(items) |->
        [name           |-> items[i].ticker,
         size           |-> items[i].weight,
         ticker         |-> items[i].ticker,
         weight         |-> items[i].weight,
         change_percent |-> items[i].change_percent]]

\* CustomizedContent: `payload.change_percent !== undefined ? payload.change_percent : 0`
\* and the chain that picks bgColor
ContentFill(raw) ==
    LET p == IF raw.kind = "undefined" THEN Num(0) ELSE raw IN
    IF Gt(p, StrongThreshold) THEN "#059669"
    ELSE IF Gt(p, MildThreshold) THEN "#10B981"
    ELSE IF Gt(p, 0) THEN "#34D399"
    ELSE IF IsZero(p) THEN "#4B5563"
    ELSE IF Gt(p, 0 - MildThreshold) THEN "#F87171"
    ELSE IF Gt(p, 0 - StrongThreshold) THEN "#EF4444"
    ELSE "#DC2626"

----------------------------------------------------------------------------
(* The colour buckets, as the sources' comments name the colours *)

\* getBgColor: Dark Green (Strong Buy), Standard Green, Gray (Neutral), Standard Red,
\* Dark Red (Strong Sell)
ClassBucket(c) ==
    CASE c = "bg-[#0a4d3c]" -> "strong-positive"
      [] c = "bg-[#147a61]" -> "positive"
      [] c = "bg-[#2d3748]" -> "neutral"
      [] c = "bg-[#82202b]" -> "negative"
      [] c = "bg-[#5c131a]" -> "strong-negative"
      [] OTHER              -> "none"

\* CustomizedContent: emerald-600, emerald-500 and emerald-400, gray-600, red-400 and
\* red-500, red-600
FillBucket(c) ==
    CASE c = "#059669" -> "strong-positive"
      [] c \in {"#10B981", "#34D399"} -> "positive"
      [] c = "#4B5563" -> "neutral"
      [] c \in {"#F87171", "#EF4444"} -> "negative"
      [] c = "#DC2626" -> "strong-negative"
      [] OTHER         -> "none"

----------------------------------------------------------------------------
(* The heatmap as a state machine: the component is mounted with some snapshot and *)
(* rendered any number of times                                                    *)

ColorIdle == percent = Num(0) /\ bgColor = "" /\ fill = ""

\* nothing is shown next to the pointer
NoTooltip == [shown |-> FALSE, text |-> ""]

\* TickerSearch before it is mounted
SearchIdle ==
    /\ query = ""
    /\ results = [v |-> 0, q |-> "", items |-> <<>>]
    /\ showDropdown = FALSE
    /\ timers = {}
    /\ searches = {}
    /\ version = 0
    /\ lastInput = "none"

\* PortfolioPage before it is mounted
PortfolioIdle ==
    /\ token = FALSE
    /\ route = "/login"
    /\ activeTab = "holdings"
    /\ holdings = {}
    /\ dividendData = [isNull |-> TRUE, rev |-> 0]
    /\ analysis = "null"
    /\ analyzing = FALSE
    /\ loading = TRUE
    /\ loadingDiv = FALSE
    /\ error = FALSE
    /\ formTicker = ""
    /\ shares = ""
    /\ avgCost = ""
    /\ editingTicker = ""
    /\ requests = {}
    /\ serverHoldings = {}
    /\ serverRev = 0
    /\ ackRev = 0

\* OnboardingModal as constructed, closed
WizardIdle ==
    /\ step = 1
    /\ answers = [experience_level |-> "", primary_goal |-> "", investment_horizon |-> "",
                  risk_tolerance |-> "", preferred_sectors |-> {}]
    /\ isOpen = FALSE
    /\ profileRequests = {}

\* StockDetailPage before it is mounted
WatchIdle ==
    /\ isInWatchlist = FALSE
    /\ serverWatched = FALSE
    /\ watchRequests = {}

\* the other components of the application are not mounted
AppIdle == SearchIdle /\ PortfolioIdle /\ WizardIdle /\ WatchIdle

\* no request is under way and the pointer is over no item
EnvIdle ==
    /\ AppIdle
    /\ inFlight = 0
    /\ hoveredTicker = ""
    /\ tooltip = NoTooltip
    /\ activeNode = <<>>
    /\ treeTooltip = NoTooltip
    /\ pointer = [event |-> "none", on |-> "", target |-> ""]

Init ==
    /\ data \in Snapshots
    /\ view = "unrendered"
    /\ sectors = EmptyMap
    /\ sectorWeights = EmptyMap
    /\ sortedSectors = <<>>
    /\ layout = <<>>
    /\ prevLayout = <<>>
    /\ prevView = "unrendered"
    /\ treeView = "unrendered"
    /\ treeData = <<>>
    /\ ColorIdle
    /\ EnvIdle

\* MarketMap (part_003) with an empty or missing snapshot: the early return
RenderNoData ==
    /\ IsEmptyInput(data)
    /\ view' = "nodata"
    /\ sectors' = EmptyMap
    /\ sectorWeights' = EmptyMap
    /\ sortedSectors' = <<>>
    /\ layout' = <<>>
    /\ prevLayout' = layout
    /\ prevView' = view
    /\ data' = DataAfterPass(data)
    /\ UNCHANGED <<treeView, treeData, percent, bgColor, fill, inFlight>>
    /\ UNCHANGED hoverVars
    /\ UNCHANGED appVars

\* MarketMap (part_003) with a non-empty snapshot: group, sum, sort, emit the boxes
RenderLayout ==
    /\ ~IsEmptyInput(data)
    /\ LET r == Aggregate(data.items) IN
         /\ view' = "layout"
         /\ sectors' = r.sectors
         /\ sectorWeights' = r.sectorWeights
         /\ sortedSectors' = r.sortedSectors
         /\ layout' = r.layout
    /\ prevLayout' = layout
    /\ prevView' = view
    /\ data' = DataAfterPass(data)
    /\ UNCHANGED <<treeView, treeData, percent, bgColor, fill, inFlight>>
    /\ UNCHANGED hoverVars
    /\ UNCHANGED appVars

\* MarketMap (Recharts variant) with an empty or missing snapshot
RenderTreemapNoData ==
    /\ TreemapIsEmptyInput(data)
    /\ treeView' = "nodata"
    /\ treeData' = <<>>
    /\ UNCHANGED <<data, view, sectors, sectorWeights, sortedSectors, layout, prevLayout,
                   prevView, percent, bgColor, fill, inFlight>>
    /\ UNCHANGED hoverVars
    /\ UNCHANGED appVars

\* MarketMap (Recharts variant) with a non-empty snapshot
RenderTreemap ==
    /\ ~TreemapIsEmptyInput(data)
    /\ treeView' = "treemap"
    /\ treeData' = TreeChildren(data.items)
    /\ UNCHANGED <<data, view, sectors, sectorWeights, sortedSectors, layout, prevLayout,
                   prevView, percent, bgColor, fill, inFlight>>
    /\ UNCHANGED hoverVars
    /\ UNCHANGED appVars

Next == RenderNoData \/ RenderLayout \/ RenderTreemapNoData \/ RenderTreemap

Spec == Init /\ [][Next]_vars

----------------------------------------------------------------------------
(* The colour mappers on their own: any percentage change, each mapper applied once *)

ColorInit ==
    /\ data = [isNull |-> TRUE, items |-> <<>>]
    /\ view = "unrendered"
    /\ sectors = EmptyMap
    /\ sectorWeights = EmptyMap
    /\ sortedSectors = <<>>
    /\ layout = <<>>
    /\ prevLayout = <<>>
    /\ prevView = "unrendered"
    /\ treeView = "unrendered"
    /\ treeData = <<>>
    /\ percent \in JSValues
    /\ bgColor = ""
    /\ fill = ""
    /\ EnvIdle

CallGetBgColor ==
    /\ bgColor = ""
    /\ bgColor' = getBgColor(percent)
    /\ UNCHANGED <<percent, fill, inFlight>>
    /\ UNCHANGED mapVars
    /\ UNCHANGED hoverVars
    /\ UNCHANGED appVars

CallCustomizedContent ==
    /\ fill = ""
    /\ fill' = ContentFill(percent)
    /\ UNCHANGED <<percent, bgColor, inFlight>>
    /\ UNCHANGED mapVars
    /\ UNCHANGED hoverVars
    /\ UNCHANGED appVars

ColorNext == CallGetBgColor \/ CallCustomizedContent

SpecColor == ColorInit /\ [][ColorNext]_vars

----------------------------------------------------------------------------
(* The heatmap over snapshots of two tickers with the weights 40 and 60 *)

ScenarioItems ==
    {[ticker |-> t, weight |-> w, change_percent |-> ChangeOf(t), sector |-> s] :
        t \in {"AAPL", "XOM"}, w \in {40, 60}, s \in Sectors}

ScenarioSnapshots ==
    {[isNull |-> TRUE, items |-> <<>>], [isNull |-> FALSE, items |-> <<>>]} \cup
    {[isNull |-> FALSE, items |-> <<i>>] : i \in ScenarioItems} \cup
    {[isNull |-> FALSE, items |-> <<p[1], p[2]>>] :
        p \in {q \in ScenarioItems \X ScenarioItems : q[1].ticker # q[2].ticker}}

ScenarioInit ==
    /\ data \in ScenarioSnapshots
    /\ view = "unrendered"
    /\ sectors = EmptyMap
    /\ sectorWeights = EmptyMap
    /\ sortedSectors = <<>>
    /\ layout = <<>>
    /\ prevLayout = <<>>
    /\ prevView = "unrendered"
    /\ treeView = "unrendered"
    /\ treeData = <<>>
    /\ ColorIdle
    /\ EnvIdle

SpecScenario == ScenarioInit /\ [][Next]_vars

----------------------------------------------------------------------------
(* Home, src/frontend/app/register/page.tsx: the dashboard refetches the snapshot at *)
(* mount and on a 30 s timer and hands dashboardData.heatmap to MarketMap; `data` is *)
(* that heatmap, isNull while dashboardData is null                                  *)

\* what the server may answer: AAPL (Tech) and XOM (Energy) in either order, each
\* present or not, with any positive weight
RefreshItems ==
    {i \in Items :
        /\ i.weight > 0
        /\ \/ i.ticker = "AAPL" /\ i.sector = "Tech"
           \/ i.ticker = "XOM" /\ i.sector = "Energy"}

RefreshSnapshots ==
    {[isNull |-> FALSE, items |-> q] :
        q \in {r \in SeqsOver({"AAPL", "XOM"}, 2) :
                  \A k \in 1 .. Len(r) : r[k] \in RefreshItems}}

\* variant of SetDashboardData: the answer's heatmap is appended to the one on display
SetDashboardData_merged(old, response) ==
    [isNull |-> FALSE, items |-> old.items \o response.items]

\* `setDashboardData(data)`: the state is replaced by the answer
SetDashboardData(old, response) == response

RefreshInit ==
    /\ data = [isNull |-> TRUE, items |-> <<>>]
    /\ view = "unrendered"
    /\ sectors = EmptyMap
    /\ sectorWeights = EmptyMap
    /\ sortedSectors = <<>>
    /\ layout = <<>>
    /\ prevLayout = <<>>
    /\ prevView = "unrendered"
    /\ treeView = "unrendered"
    /\ treeData = <<>>
    /\ ColorIdle
    /\ EnvIdle

\* fetchData up to `await fetch(...)`: called at mount and by every tick of the timer
StartFetch ==
    /\ inFlight < MaxInFlight
    /\ inFlight' = inFlight + 1
    /\ UNCHANGED mapVars
    /\ UNCHANGED colorVars
    /\ UNCHANGED hoverVars
    /\ UNCHANGED appVars

\* a request answers with res.ok: `setDashboardData(data)`
FetchOk ==
    /\ inFlight > 0
    /\ inFlight' = inFlight - 1
    /\ \E response \in RefreshSnapshots : data' = SetDashboardData(data, response)
    /\ UNCHANGED <<view, sectors, sectorWeights, sortedSectors, layout, prevLayout, prevView,
                   treeView, treeData>>
    /\ UNCHANGED colorVars
    /\ UNCHANGED hoverVars
    /\ UNCHANGED appVars

\* a request answers with a status that is not ok, or throws: no state is set
FetchFailed ==
    /\ inFlight > 0
    /\ inFlight' = inFlight - 1
    /\ UNCHANGED mapVars
    /\ UNCHANGED colorVars
    /\ UNCHANGED hoverVars
    /\ UNCHANGED appVars

\* Home renders MarketMap once `dashboardData?.heatmap` is there
HomeRender ==
    /\ ~data.isNull
    /\ (RenderNoData \/ RenderLayout)

RefreshNext == StartFetch \/ FetchOk \/ FetchFailed \/ HomeRender

SpecRefresh == RefreshInit /\ [][RefreshNext]_vars

----------------------------------------------------------------------------
(* Hovering.  Neither variant keeps hover state of its own: part_003 gives every item *)
(* box a title attribute and a hover: class, which the browser applies to the box     *)
(* under the pointer; the Recharts variant nests a <Tooltip> in the <Treemap>, which  *)
(* hands the content callback the active leaf as payload.  The pointer events are the *)
(* platform's; what is shown for them is the code's.                                  *)

\* the title tooltip of a box
TitleTooltip(box) == [shown |-> TRUE, text |-> box.title]

\* <Tooltip content={({ payload }) => ...}>: the leaf's name, price and change when the
\* payload is not empty, null otherwise
TooltipContent(payload) ==
    IF Len(payload) > 0
    THEN [shown |-> TRUE, text |-> payload[1].name]
    ELSE NoTooltip

HoverInit ==
    /\ data \in RefreshSnapshots
    /\ view = "unrendered"
    /\ sectors = EmptyMap
    /\ sectorWeights = EmptyMap
    /\ sortedSectors = <<>>
    /\ layout = <<>>
    /\ prevLayout = <<>>
    /\ prevView = "unrendered"
    /\ treeView = "unrendered"
    /\ treeData = <<>>
    /\ ColorIdle
    /\ EnvIdle

\* the pointer comes from outside the item boxes onto the box of ticker t
PointerEnter ==
    /\ view = "layout"
    /\ hoveredTicker = ""
    /\ \E s \in 1 .. Len(layout) : \E j \in 1 .. Len(layout[s].items) :
           LET box == layout[s].items[j] IN
             /\ hoveredTicker' = box.ticker
             /\ tooltip' = TitleTooltip(box)
             /\ pointer' = [event |-> "enter", on |-> "item", target |-> box.ticker]
    /\ UNCHANGED <<activeNode, treeTooltip, inFlight>>
    /\ UNCHANGED mapVars
    /\ UNCHANGED colorVars
    /\ UNCHANGED appVars

\* the pointer moves while over an item box: within the box, or on to another box
PointerMove ==
    /\ view = "layout"
    /\ hoveredTicker # ""
    /\ \E s \in 1 .. Len(layout) : \E j \in 1 .. Len(layout[s].items) :
           LET box == layout[s].items[j] IN
             /\ hoveredTicker' = box.ticker
             /\ tooltip' = TitleTooltip(box)
             /\ pointer' = [event |-> "move", on |-> "item", target |-> box.ticker]
    /\ UNCHANGED <<activeNode, treeTooltip, inFlight>>
    /\ UNCHANGED mapVars
    /\ UNCHANGED colorVars
    /\ UNCHANGED appVars

\* the pointer leaves the item box it was over for a region that is no item box
PointerLeave ==
    /\ hoveredTicker # ""
    /\ hoveredTicker' = ""
    /\ tooltip' = NoTooltip
    /\ pointer' = [event |-> "leave", on |-> "item", target |-> hoveredTicker]
    /\ UNCHANGED <<activeNode, treeTooltip, inFlight>>
    /\ UNCHANGED mapVars
    /\ UNCHANGED colorVars
    /\ UNCHANGED appVars

\* Recharts variant: the pointer comes onto, or moves on to, the leaf of treeData[n]
TreePointerEnter ==
    /\ treeView = "treemap"
    /\ \E n \in 1 .. Len(treeData) :
           /\ activeNode # <<treeData[n]>>
           /\ activeNode' = <<treeData[n]>>
           /\ treeTooltip' = TooltipContent(<<treeData[n]>>)
           /\ pointer' = [event |-> IF activeNode = <<>> THEN "enter" ELSE "move",
                          on |-> "leaf", target |-> treeData[n].ticker]
    /\ UNCHANGED <<hoveredTicker, tooltip, inFlight>>
    /\ UNCHANGED mapVars
    /\ UNCHANGED colorVars
    /\ UNCHANGED appVars

\* Recharts variant: the pointer leaves the active leaf
TreePointerLeave ==
    /\ activeNode # <<>>
    /\ activeNode' = <<>>
    /\ treeTooltip' = TooltipContent(<<>>)
    /\ pointer' = [event |-> "leave", on |-> "leaf", target |-> activeNode[1].ticker]
    /\ UNCHANGED <<hoveredTicker, tooltip, inFlight>>
    /\ UNCHANGED mapVars
    /\ UNCHANGED colorVars
    /\ UNCHANGED appVars

HoverNext ==
    \/ RenderNoData \/ RenderLayout \/ RenderTreemapNoData \/ RenderTreemap
    \/ PointerEnter \/ PointerMove \/ PointerLeave
    \/ TreePointerEnter \/ TreePointerLeave

SpecHover == HoverInit /\ [][HoverNext]_vars

----------------------------------------------------------------------------
(* TickerSearch, src/frontend/components/TickerSearch.tsx: an input whose changes are *)
(* debounced by 300 ms before a search request is sent, and a dropdown of results     *)

\* the heatmap and the dashboard are not mounted
HeatmapIdle ==
    /\ data = [isNull |-> TRUE, items |-> <<>>]
    /\ view = "unrendered"
    /\ sectors = EmptyMap
    /\ sectorWeights = EmptyMap
    /\ sortedSectors = <<>>
    /\ layout = <<>>
    /\ prevLayout = <<>>
    /\ prevView = "unrendered"
    /\ treeView = "unrendered"
    /\ treeData = <<>>
    /\ ColorIdle
    /\ inFlight = 0
    /\ hoveredTicker = ""
    /\ tooltip = NoTooltip
    /\ activeNode = <<>>
    /\ treeTooltip = NoTooltip
    /\ pointer = [event |-> "none", on |-> "", target |-> ""]

\* what the user may type (the input upper-cases it) and what the server may answer
SearchQueries == {"", "A", "AA", "X"}
SearchAnswers == {<<>>, <<"AAPL">>, <<"AAPL", "AMZN">>}

\* variant of EffectRerun: the effect returns no cleanup, so the old timer stays pending
EffectRerun_noCleanup(pending, q, v) == pending \cup {[q |-> q, v |-> v]}

\* the [query] effect runs again: the cleanup `clearTimeout(timeoutId)` of the run before,
\* then `setTimeout(() => fetchResults(), 300)` closing over the query of this render
EffectRerun(pending, q, v) == {[q |-> q, v |-> v]}

SearchInit ==
    /\ HeatmapIdle
    /\ query = ""
    /\ results = [v |-> 0, q |-> "", items |-> <<>>]
    /\ showDropdown = FALSE
    /\ timers = EffectRerun({}, "", 0)
    /\ searches = {}
    /\ version = 0
    /\ lastInput = "none"
    /\ PortfolioIdle
    /\ WizardIdle
    /\ WatchIdle

\* onChange of the input: the text changes to val
OnChange ==
    /\ version < MaxEdits
    /\ \E val \in SearchQueries \ {query} :
           /\ query' = val
           /\ timers' = EffectRerun(timers, val, version + 1)
    /\ version' = version + 1
    /\ showDropdown' = TRUE
    /\ lastInput' = "edit"
    /\ UNCHANGED <<results, searches>>
    /\ UNCHANGED heatmapVars
    /\ UNCHANGED <<portfolioVars, wizardVars, watchVars>>

\* a debounce timer expires: fetchResults with the query it closed over, up to the
\* `await fetch(...)`
TimerFires ==
    /\ \E t \in timers :
           /\ timers' = timers \ {t}
           /\ IF t.q = ""
              THEN /\ results' = [v |-> t.v, q |-> t.q, items |-> <<>>]
                   /\ searches' = searches
              ELSE /\ searches' = searches \cup {t}
                   /\ results' = results
    /\ UNCHANGED <<query, showDropdown, version, lastInput>>
    /\ UNCHANGED heatmapVars
    /\ UNCHANGED <<portfolioVars, wizardVars, watchVars>>

\* a search request answers with res.ok
SearchOk ==
    /\ \E r \in searches :
           /\ searches' = searches \ {r}
           /\ \E items \in SearchAnswers : results' = [v |-> r.v, q |-> r.q, items |-> items]
    /\ showDropdown' = TRUE
    /\ UNCHANGED <<query, timers, version, lastInput>>
    /\ UNCHANGED heatmapVars
    /\ UNCHANGED <<portfolioVars, wizardVars, watchVars>>

\* a search request answers with a status that is not ok, or throws
SearchFailed ==
    /\ \E r \in searches : searches' = searches \ {r}
    /\ UNCHANGED <<query, results, showDropdown, timers, version, lastInput>>
    /\ UNCHANGED heatmapVars
    /\ UNCHANGED <<portfolioVars, wizardVars, watchVars>>

\* handleSelect: a click on a row of the dropdown, which is rendered while
\* `showDropdown && results.length > 0`
HandleSelect ==
    /\ showDropdown
    /\ \E k \in 1 .. Len(results.items) :
           LET ticker == results.items[k] IN
             /\ query' = ticker
             /\ IF ticker = query
                THEN UNCHANGED <<timers, version>>
                ELSE /\ version < MaxEdits
                     /\ version' = version + 1
                     /\ timers' = EffectRerun(timers, ticker, version + 1)
    /\ showDropdown' = FALSE
    /\ lastInput' = "select"
    /\ UNCHANGED <<results, searches>>
    /\ UNCHANGED heatmapVars
    /\ UNCHANGED <<portfolioVars, wizardVars, watchVars>>

\* handleClickOutside: a mousedown outside the wrapper while the dropdown is open
ClickOutside ==
    /\ showDropdown
    /\ showDropdown' = FALSE
    /\ UNCHANGED <<query, results, timers, searches, version, lastInput>>
    /\ UNCHANGED heatmapVars
    /\ UNCHANGED <<portfolioVars, wizardVars, watchVars>>

SearchNext ==
    OnChange \/ TimerFires \/ SearchOk \/ SearchFailed \/ HandleSelect \/ ClickOutside

SpecSearch == SearchInit /\ [][SearchNext]_vars

----------------------------------------------------------------------------
(* PortfolioPage, src/frontend/app/providers.tsx: the holdings with their form, the *)
(* dividends tab and the analysis tab, every request authenticated by the token     *)

PortfolioTickers == {"AAPL"}
FieldTexts       == {"", "10"}
Statuses         == {"ok", "401", "500", "neterr"}

notPortfolioVars == <<heatmapVars, searchVars, wizardVars, watchVars>>

\* a request as it leaves the page
Req(kind, method, tk) ==
    [kind |-> kind, phase |-> "sent", status |-> "", method |-> method, ticker |-> tk,
     rev |-> 0, list |-> {}]

\* variant of HandleAuthError: the token stays in localStorage
HandleAuthError_keepsToken(tok, rt) == [token |-> tok, route |-> "/login"]

\* handleAuthError: localStorage.removeItem('token'); router.push('/login')
HandleAuthError(tok, rt) == [token |-> FALSE, route |-> "/login"]

\* variant of AnalyzingAfter: setAnalyzing(false) closes the try block instead of sitting
\* in finally, so the early return on 401 and the throw skip it
AnalyzingAfter_endOfTry(status) == status # "ok"

\* handleAnalyze's `finally { setAnalyzing(false) }`
AnalyzingAfter(status) == FALSE

\* variant of SubmitMethod: the form always creates
SubmitMethod_alwaysPost(editing) == "POST"

\* `const method = editingTicker ? 'PUT' : 'POST'`
SubmitMethod(editing) == IF editing # "" THEN "PUT" ELSE "POST"

\* the page is mounted with a token: the mount effect has called fetchPortfolio
PortfolioInit ==
    /\ HeatmapIdle
    /\ SearchIdle
    /\ WizardIdle
    /\ WatchIdle
    /\ token = TRUE
    /\ route = "/portfolio"
    /\ activeTab = "holdings"
    /\ holdings = {}
    /\ dividendData = [isNull |-> TRUE, rev |-> 0]
    /\ analysis = "null"
    /\ analyzing = FALSE
    /\ loading = TRUE
    /\ loadingDiv = FALSE
    /\ error = FALSE
    /\ formTicker = ""
    /\ shares = ""
    /\ avgCost = ""
    /\ editingTicker = ""
    /\ requests = {Req("list", "GET", "")}
    /\ serverHoldings \in SUBSET PortfolioTickers
    /\ serverRev = 0
    /\ ackRev = 0

\* a click on a tab; the [activeTab] effect calls fetchDividendData when the dividends
\* tab becomes active and there is no dividend data
SelectTab ==
    /\ route = "/portfolio"
    /\ \E tab \in {"holdings", "analysis", "dividends"} \ {activeTab} :
           /\ activeTab' = tab
           /\ IF tab = "dividends" /\ dividendData.isNull
              THEN /\ Cardinality(requests) < MaxRequests
                   /\ loadingDiv' = TRUE
                   /\ requests' = requests \cup {Req("dividends", "GET", "")}
              ELSE UNCHANGED <<loadingDiv, requests>>
    /\ UNCHANGED <<token, route, holdings, dividendData, analysis, analyzing, loading, error,
                   formVars, serverHoldings, serverRev, ackRev>>
    /\ UNCHANGED notPortfolioVars

\* handleAnalyze up to the `await fetch(...)`; the button is on the analysis tab and is
\* disabled while analyzing
HandleAnalyze ==
    /\ route = "/portfolio"
    /\ activeTab = "analysis"
    /\ ~analyzing
    /\ Cardinality(requests) < MaxRequests
    /\ analyzing' = TRUE
    /\ analysis' = "null"
    /\ activeTab' = "analysis"
    /\ requests' = requests \cup {Req("analyze", "POST", "")}
    /\ UNCHANGED <<token, route, holdings, dividendData, loading, loadingDiv, error,
                   formVars, serverHoldings, serverRev, ackRev>>
    /\ UNCHANGED notPortfolioVars

\* the user types into shares or avgCost, or picks a ticker in TickerSearch, which is
\* rendered only while no holding is being edited
TypeField ==
    /\ route = "/portfolio"
    /\ activeTab = "holdings"
    /\ \/ \E v \in FieldTexts \ {shares} : shares' = v /\ UNCHANGED <<avgCost, formTicker>>
       \/ \E v \in FieldTexts \ {avgCost} : avgCost' = v /\ UNCHANGED <<shares, formTicker>>
       \/ /\ editingTicker = ""
          /\ \E v \in (PortfolioTickers \cup {""}) \ {formTicker} : formTicker' = v
          /\ UNCHANGED <<shares, avgCost>>
    /\ UNCHANGED <<token, route, activeTab, holdings, dividendData, analysis, analyzing,
                   loading, loadingDiv, error, editingTicker, requests, serverHoldings,
                   serverRev, ackRev>>
    /\ UNCHANGED notPortfolioVars

\* handleEdit: a click on a row's edit button
HandleEdit ==
    /\ route = "/portfolio"
    /\ activeTab = "holdings"
    /\ \E item \in holdings :
           /\ formTicker' = item
           /\ editingTicker' = item
    /\ shares' = "10"
    /\ avgCost' = "10"
    /\ UNCHANGED <<token, route, activeTab, holdings, dividendData, analysis, analyzing,
                   loading, loadingDiv, error, requests, serverHoldings, serverRev, ackRev>>
    /\ UNCHANGED notPortfolioVars

\* resetForm by the cancel button, which is rendered while a holding is being edited
CancelEdit ==
    /\ route = "/portfolio"
    /\ activeTab = "holdings"
    /\ editingTicker # ""
    /\ formTicker' = ""
    /\ shares' = ""
    /\ avgCost' = ""
    /\ editingTicker' = ""
    /\ UNCHANGED <<token, route, activeTab, holdings, dividendData, analysis, analyzing,
                   loading, loadingDiv, error, requests, serverHoldings, serverRev, ackRev>>
    /\ UNCHANGED notPortfolioVars

\* handleAddOrUpdate up to the `await fetch(...)`; every input of the form is required
Submit ==
    /\ route = "/portfolio"
    /\ activeTab = "holdings"
    /\ shares # ""
    /\ avgCost # ""
    /\ editingTicker # "" \/ formTicker # ""
    /\ Cardinality(requests) < MaxRequests
    /\ requests' = requests \cup
           {Req("save", SubmitMethod(editingTicker),
                IF editingTicker # "" THEN editingTicker ELSE formTicker)}
    /\ UNCHANGED <<token, route, activeTab, holdings, dividendData, analysis, analyzing,
                   loading, loadingDiv, error, formVars, serverHoldings, serverRev, ackRev>>
    /\ UNCHANGED notPortfolioVars

\* handleDelete up to the `await fetch(...)`, the confirm dialog accepted
HandleDelete ==
    /\ route = "/portfolio"
    /\ activeTab = "holdings"
    /\ Cardinality(requests) < MaxRequests
    /\ \E item \in holdings : requests' = requests \cup {Req("delete", "DELETE", item)}
    /\ UNCHANGED <<token, route, activeTab, holdings, dividendData, analysis, analyzing,
                   loading, loadingDiv, error, formVars, serverHoldings, serverRev, ackRev>>
    /\ UNCHANGED notPortfolioVars

\* the server answers a request, or the request fails on the way (neterr); an accepted
\* save or delete changes the portfolio and gives it a new revision
ServerAnswers ==
    /\ \E r \in {q \in requests : q.phase = "sent"} : \E st \in Statuses :
           LET mutates == st = "ok" /\ r.kind \in {"save", "delete"}
               after   == IF ~mutates THEN serverHoldings
                          ELSE IF r.kind = "delete" THEN serverHoldings \ {r.ticker}
                          ELSE IF r.method = "POST" THEN serverHoldings \cup {r.ticker}
                          ELSE serverHoldings
               rev     == IF mutates THEN serverRev + 1 ELSE serverRev
           IN  /\ mutates => serverRev < MaxMutations
               /\ serverHoldings' = after
               /\ serverRev' = rev
               /\ requests' = (requests \ {r}) \cup
                      {[r EXCEPT !.phase = "answered", !.status = st,
                                 !.rev = IF st = "ok" THEN rev ELSE 0,
                                 !.list = IF st = "ok" /\ r.kind = "list" THEN after ELSE {}]}
    /\ UNCHANGED <<token, route, activeTab, holdings, dividendData, analysis, analyzing,
                   loading, loadingDiv, error, formVars, ackRev>>
    /\ UNCHANGED notPortfolioVars

\* fetchPortfolio from the answer on
ListAnswered ==
    /\ route = "/portfolio"
    /\ \E r \in {q \in requests : q.phase = "answered" /\ q.kind = "list"} :
           /\ requests' = requests \ {r}
           /\ holdings' = IF r.status = "ok" THEN r.list ELSE holdings
           /\ error' = IF r.status \in {"500", "neterr"} THEN TRUE ELSE error
           /\ token' = IF r.status = "401" THEN HandleAuthError(token, route).token ELSE token
           /\ route' = IF r.status = "401" THEN HandleAuthError(token, route).route ELSE route
    /\ loading' = FALSE
    /\ UNCHANGED <<activeTab, dividendData, analysis, analyzing, loadingDiv, formVars,
                   serverHoldings, serverRev, ackRev>>
    /\ UNCHANGED notPortfolioVars

\* fetchDividendData from the answer on
DividendsAnswered ==
    /\ route = "/portfolio"
    /\ \E r \in {q \in requests : q.phase = "answered" /\ q.kind = "dividends"} :
           /\ requests' = requests \ {r}
           /\ dividendData' = IF r.status = "ok" THEN [isNull |-> FALSE, rev |-> r.rev]
                               ELSE dividendData
           /\ token' = IF r.status = "401" THEN HandleAuthError(token, route).token ELSE token
           /\ route' = IF r.status = "401" THEN HandleAuthError(token, route).route ELSE route
    /\ loadingDiv' = FALSE
    /\ UNCHANGED <<activeTab, holdings, analysis, analyzing, loading, error, formVars,
                   serverHoldings, serverRev, ackRev>>
    /\ UNCHANGED notPortfolioVars

\* handleAnalyze from the answer on
AnalyzeAnswered ==
    /\ route = "/portfolio"
    /\ \E r \in {q \in requests : q.phase = "answered" /\ q.kind = "analyze"} :
           /\ requests' = requests \ {r}
           /\ analysis' = IF r.status = "ok" THEN "report" ELSE analysis
           /\ token' = IF r.status = "401" THEN HandleAuthError(token, route).token ELSE token
           /\ route' = IF r.status = "401" THEN HandleAuthError(token, route).route ELSE route
           /\ analyzing' = AnalyzingAfter(r.status)
    /\ UNCHANGED <<activeTab, holdings, dividendData, loading, loadingDiv, error, formVars,
                   serverHoldings, serverRev, ackRev>>
    /\ UNCHANGED notPortfolioVars

\* handleAddOrUpdate from the answer on: fetchPortfolio(), setDividendData(null) and
\* resetForm() when the server accepted
SaveAnswered ==
    /\ route = "/portfolio"
    /\ \E r \in {q \in requests : q.phase = "answered" /\ q.kind = "save"} :
           IF r.status = "ok"
           THEN /\ requests' = (requests \ {r}) \cup {Req("list", "GET", "")}
                /\ dividendData' = [isNull |-> TRUE, rev |-> 0]
                /\ formTicker' = ""
                /\ shares' = ""
                /\ avgCost' = ""
                /\ editingTicker' = ""
                /\ ackRev' = IF r.rev > ackRev THEN r.rev ELSE ackRev
                /\ UNCHANGED <<token, route>>
           ELSE /\ requests' = requests \ {r}
                /\ token' = IF r.status = "401" THEN HandleAuthError(token, route).token
                             ELSE token
                /\ route' = IF r.status = "401" THEN HandleAuthError(token, route).route
                             ELSE route
                /\ UNCHANGED <<dividendData, formVars, ackRev>>
    /\ UNCHANGED <<activeTab, holdings, analysis, analyzing, loading, loadingDiv, error,
                   serverHoldings, serverRev>>
    /\ UNCHANGED notPortfolioVars

\* handleDelete from the answer on: fetchPortfolio() and setDividendData(null) when the
\* server accepted
DeleteAnswered ==
    /\ route = "/portfolio"
    /\ \E r \in {q \in requests : q.phase = "answered" /\ q.kind = "delete"} :
           IF r.status = "ok"
           THEN /\ requests' = (requests \ {r}) \cup {Req("list", "GET", "")}
                /\ dividendData' = [isNull |-> TRUE, rev |-> 0]
                /\ ackRev' = IF r.rev > ackRev THEN r.rev ELSE ackRev
                /\ UNCHANGED <<token, route>>
           ELSE /\ requests' = requests \ {r}
                /\ token' = IF r.status = "401" THEN HandleAuthError(token, route).token
                             ELSE token
                /\ route' = IF r.status = "401" THEN HandleAuthError(token, route).route
                             ELSE route
                /\ UNCHANGED <<dividendData, ackRev>>
    /\ UNCHANGED <<activeTab, holdings, analysis, analyzing, loading, loadingDiv, error,
                   formVars, serverHoldings, serverRev>>
    /\ UNCHANGED notPortfolioVars

\* the page with every kind of request: the tabs, the analysis, and edits and deletions
\* of the holdings listed
PortfolioNext ==
    \/ SelectTab \/ HandleAnalyze \/ HandleEdit \/ Submit \/ HandleDelete
    \/ ServerAnswers \/ ListAnswered \/ DividendsAnswered \/ AnalyzeAnswered
    \/ SaveAnswered \/ DeleteAnswered

SpecPortfolio == PortfolioInit /\ [][PortfolioNext]_vars

\* the tabs and deletions of holdings
DividendsNext ==
    \/ SelectTab \/ HandleDelete \/ ServerAnswers \/ ListAnswered \/ DividendsAnswered
    \/ DeleteAnswered

SpecDividends == PortfolioInit /\ [][DividendsNext]_vars

\* the tabs and the analysis
AnalyzeNext ==
    \/ SelectTab \/ HandleAnalyze \/ ServerAnswers \/ ListAnswered \/ DividendsAnswered
    \/ AnalyzeAnswered

SpecAnalyze == PortfolioInit /\ [][AnalyzeNext]_vars

\* the holdings tab with its form
FormNext ==
    \/ TypeField \/ HandleEdit \/ CancelEdit \/ Submit \/ ServerAnswers \/ ListAnswered
    \/ SaveAnswered

SpecForm == PortfolioInit /\ [][FormNext]_vars

----------------------------------------------------------------------------
(* OnboardingModal, src/frontend/components/MarketMap.tsx: five steps, one question *)
(* each for steps 1 to 4 and the preferred sectors at step 5                        *)

LastStep == 5

notWizardVars == <<heatmapVars, searchVars, portfolioVars, watchVars>>

\* the key handleOptionSelect is called with at each step
StepKey(st) ==
    CASE st = 1 -> "experience_level"
      [] st = 2 -> "primary_goal"
      [] st = 3 -> "investment_horizon"
      [] st = 4 -> "risk_tolerance"

\* two of the options each step offers
StepOptions(st) ==
    CASE st = 1 -> {"Beginner", "Expert"}
      [] st = 2 -> {"growth", "dividend"}
      [] st = 3 -> {"Short", "Long"}
      [] st = 4 -> {"low", "high"}

WizardSectors == {"Technology", "Energy"}

\* variant of isStepValid: step 2 tests the answer of step 1
isStepValid_wrongKey(st, ans) ==
    IF st = 1 THEN ans.experience_level # ""
    ELSE IF st = 2 THEN ans.experience_level # ""
    ELSE IF st = 3 THEN ans.investment_horizon # ""
    ELSE IF st = 4 THEN ans.risk_tolerance # ""
    ELSE TRUE

isStepValid(st, ans) ==
    IF st = 1 THEN ans.experience_level # ""
    ELSE IF st = 2 THEN ans.primary_goal # ""
    ELSE IF st = 3 THEN ans.investment_horizon # ""
    ELSE IF st = 4 THEN ans.risk_tolerance # ""
    ELSE TRUE

\* the modal as PortfolioPage opens it
WizardInit ==
    /\ HeatmapIdle
    /\ SearchIdle
    /\ PortfolioIdle
    /\ WatchIdle
    /\ step = 1
    /\ answers = [experience_level |-> "", primary_goal |-> "", investment_horizon |-> "",
                  risk_tolerance |-> "", preferred_sectors |-> {}]
    /\ isOpen = TRUE
    /\ profileRequests = {}

\* handleOptionSelect by one of the option buttons of the step on display
HandleOptionSelect ==
    /\ isOpen
    /\ step \in 1 .. 4
    /\ \E value \in StepOptions(step) : answers' = [answers EXCEPT ![StepKey(step)] = value]
    /\ UNCHANGED <<step, isOpen, profileRequests>>
    /\ UNCHANGED notWizardVars

\* toggleSector by one of the sector buttons of step 5
ToggleSector ==
    /\ isOpen
    /\ step = 5
    /\ \E sector \in WizardSectors :
           answers' = [answers EXCEPT !.preferred_sectors =
                           IF sector \in @ THEN @ \ {sector} ELSE @ \cup {sector}]
    /\ UNCHANGED <<step, isOpen, profileRequests>>
    /\ UNCHANGED notWizardVars

\* nextStep: the button is rendered while step < 5 and disabled unless isStepValid()
NextStep ==
    /\ isOpen
    /\ step < LastStep
    /\ isStepValid(step, answers)
    /\ step' = step + 1
    /\ UNCHANGED <<answers, isOpen, profileRequests>>
    /\ UNCHANGED notWizardVars

\* prevStep: the button is rendered while step > 1
PrevStep ==
    /\ isOpen
    /\ step > 1
    /\ step' = step - 1
    /\ UNCHANGED <<answers, isOpen, profileRequests>>
    /\ UNCHANGED notWizardVars

\* submitProfile up to the `await fetch(...)`: the button replaces next at step 5
SubmitProfile ==
    /\ isOpen
    /\ step >= LastStep
    /\ Cardinality(profileRequests) < MaxRequests
    /\ profileRequests' = profileRequests \cup
           {[experience_level |-> answers.experience_level,
             primary_goal |-> answers.primary_goal,
             investment_horizon |-> answers.investment_horizon,
             risk_tolerance |-> answers.risk_tolerance]}
    /\ UNCHANGED <<step, answers, isOpen>>
    /\ UNCHANGED notWizardVars

\* submitProfile from the answer on: onClose() when res.ok
ProfileAnswered ==
    /\ \E r \in profileRequests : profileRequests' = profileRequests \ {r}
    /\ \E ok \in BOOLEAN : isOpen' = IF ok THEN FALSE ELSE isOpen
    /\ UNCHANGED <<step, answers>>
    /\ UNCHANGED notWizardVars

WizardNext ==
    \/ HandleOptionSelect \/ ToggleSector \/ NextStep \/ PrevStep \/ SubmitProfile
    \/ ProfileAnswered

SpecWizard == WizardInit /\ [][WizardNext]_vars

----------------------------------------------------------------------------
(* StockDetailPage, src/frontend/app/stocks/[ticker]/page.tsx: the watchlist star *)

notWatchVars == <<heatmapVars, searchVars, portfolioVars, wizardVars>>

WatchReq(kind) == [kind |-> kind, phase |-> "sent", status |-> "", exists |-> FALSE]

\* the page is mounted: the [ticker] effect has called checkWatchlistStatus
WatchInit ==
    /\ HeatmapIdle
    /\ SearchIdle
    /\ PortfolioIdle
    /\ WizardIdle
    /\ isInWatchlist = FALSE
    /\ serverWatched \in BOOLEAN
    /\ watchRequests = {WatchReq("check")}

\* toggleWatchlist up to the `await fetch(...)`: DELETE when the star is on, POST otherwise
ToggleWatchlist ==
    /\ Cardinality(watchRequests) < MaxRequests
    /\ watchRequests' = watchRequests \cup {WatchReq(IF isInWatchlist THEN "DELETE" ELSE "POST")}
    /\ UNCHANGED <<isInWatchlist, serverWatched>>
    /\ UNCHANGED notWatchVars

\* the server answers a watchlist request, or the request fails on the way (neterr)
WatchServerAnswers ==
    /\ \E r \in {q \in watchRequests : q.phase = "sent"} : \E st \in {"ok", "500", "neterr"} :
           LET after == IF st # "ok" THEN serverWatched
                        ELSE IF r.kind = "POST" THEN TRUE
                        ELSE IF r.kind = "DELETE" THEN FALSE
                        ELSE serverWatched
           IN  /\ serverWatched' = after
               /\ watchRequests' = (watchRequests \ {r}) \cup
                      {[r EXCEPT !.phase = "answered", !.status = st,
                                 !.exists = st = "ok" /\ r.kind = "check" /\ after]}
    /\ UNCHANGED isInWatchlist
    /\ UNCHANGED notWatchVars

\* toggleWatchlist from the answer on: the state is set after the await, whatever the
\* status; only a fetch that throws skips it
ToggleAnswered ==
    /\ \E r \in {q \in watchRequests : q.phase = "answered" /\ q.kind # "check"} :
           /\ watchRequests' = watchRequests \ {r}
           /\ isInWatchlist' = IF r.status = "neterr" THEN isInWatchlist
                                ELSE r.kind = "POST"
    /\ UNCHANGED serverWatched
    /\ UNCHANGED notWatchVars

\* checkWatchlistStatus from the answer on
CheckAnswered ==
    /\ \E r \in {q \in watchRequests : q.phase = "answered" /\ q.kind = "check"} :
           /\ watchRequests' = watchRequests \ {r}
           /\ isInWatchlist' = IF r.status = "ok" THEN r.exists ELSE isInWatchlist
    /\ UNCHANGED serverWatched
    /\ UNCHANGED notWatchVars

WatchNext == ToggleWatchlist \/ WatchServerAnswers \/ ToggleAnswered \/ CheckAnswered

SpecWatch == WatchInit /\ [][WatchNext]_vars

----------------------------------------------------------------------------
(* Geometry of one pass, read off the emitted boxes *)

Max(a, b) == IF a >= b THEN a ELSE b
Min(a, b) == IF a <= b THEN a ELSE b

\* every weight of the snapshot is positive (the Partitioner's input constraint)
PositiveWeights == \A i \in 1 .. Len(data.items) : data.items[i].weight > 0

Area(r)       == r.w * r.h
ParentArea(r) == (PercentScale * r.den) * (PercentScale * r.den)
SumAreas(rs)  == SumSeq([i \in 1 .. Len(rs) |-> Area(rs[i])])

\* the area two rects of one container share
Overlap(r, q) ==
    Max(0, Min(r.x + r.w, q.x + q.w) - Max(r.x, q.x)) *
    Max(0, Min(r.y + r.h, q.y + q.h) - Max(r.y, q.y))

SectorRects  == FlowRects(layout)
ItemRects(i) == FlowRects(layout[i].items)

\* the summed weight of the items the pass put into bucket k
BucketWeight(k) == SumSeq([j \in 1 .. Len(sectors[k]) |-> sectors[k][j].weight])
\* the summed weight of the snapshot
SnapshotWeight  == SumSeq([j \in 1 .. Len(data.items) |-> data.items[j].weight])

----------------------------------------------------------------------------
(* Claims *)

\* C1 (as stated): area conservation.  After a pass over a snapshot of positive weights
\* the areas of the sector rects sum to the area of the canvas, and in every sector the
\* areas of the item rects sum to the area of the sector's local rect.
C1_AreaConservation ==
    (view = "layout" /\ PositiveWeights) =>
        /\ SumAreas(SectorRects) = ParentArea(SectorRects[1])
        /\ \A i \in 1 .. Len(layout) :
               SumAreas(ItemRects(i)) = ParentArea(ItemRects(i)[1])

C3_Proportional ==
    (view = "layout" /\ PositiveWeights) =>
        /\ \A i \in 1 .. Len(layout) :
               Area(SectorRects[i]) * SnapshotWeight =
                   BucketWeight(layout[i].name) * ParentArea(SectorRects[i])
        /\ \A s \in 1 .. Len(layout) :
               \A j \in 1 .. Len(layout[s].items) :
                   Area(ItemRects(s)[j]) * BucketWeight(layout[s].name) =
                       sectors[layout[s].name][j].weight * ParentArea(ItemRects(s)[j])

CountIn(bucket, item) == Cardinality({j \in 1 .. Len(bucket) : bucket[j] = item})

\* after a pass every item of the snapshot lies exactly once in the bucket NameOf(item)
\* and in no other bucket, and the buckets hold nothing else
GroupedBy(NameOf(_)) ==
    /\ \A n \in 1 .. Len(data.items) :
           LET item == data.items[n] IN
           /\ NameOf(item) \in DOMAIN sectors
           /\ \A k \in DOMAIN sectors :
                  CountIn(sectors[k], item) = IF k = NameOf(item) THEN 1 ELSE 0
    /\ SumSeq([i \in 1 .. Len(sortedSectors) |-> Len(sectors[sortedSectors[i]])])
           = Len(data.items)

\* the bucket name the claim gives an item: its sector, "Others" when it has none
C5_ClaimedName(item) == IF item.sector = Undefined THEN "Others" ELSE item.sector

\* the bucket name with the empty string counted as no sector
C5_AmendedName(item) ==
    IF item.sector = Undefined \/ item.sector = "" THEN "Others" ELSE item.sector

\* C5 (as stated): sector grouping.  After a pass every input item appears in exactly
\* one bucket, and the bucket's name is the item's sector, or "Others" when the item
\* has no sector.
C5_Grouping == view = "layout" => GroupedBy(C5_ClaimedName)

\* C5 (amended): ... the bucket's name is the item's sector, or "Others" when the item
\* has no sector or its sector is the empty string.
C5_GroupingAmended == view = "layout" => GroupedBy(C5_AmendedName)

\* a pass that put an item without sector and an item with sector "" into "Others",
\* next to a named sector
C5_Witness ==
    /\ view = "layout"
    /\ Len(data.items) = 3
    /\ \E a, b \in 1 .. 3 : data.items[a].sector = "" /\ data.items[b].sector = Undefined
    /\ "Others" \in DOMAIN sectors
    /\ Len(sectors["Others"]) = 2
    /\ Len(layout) = 2

\* C6: order preservation.  The i-th sector box belongs to the i-th sector of
\* sortedSectors and its j-th item box to the j-th item of the sorted bucket; along the
\* row the boxes follow each other in that order.
C6_OrderPreserved ==
    view = "layout" =>
        /\ Len(layout) = Len(sortedSectors)
        /\ \A i \in 1 .. Len(layout) :
               /\ layout[i].name = sortedSectors[i]
               /\ Len(layout[i].items) = Len(sectors[sortedSectors[i]])
               /\ \A j \in 1 .. Len(layout[i].items) :
                      layout[i].items[j].ticker = sectors[sortedSectors[i]][j].ticker
        /\ PositiveWeights =>
               /\ \A i, j \in 1 .. Len(layout) :
                      i < j => SectorRects[i].x < SectorRects[j].x
               /\ \A s \in 1 .. Len(layout) :
                      \A i, j \in 1 .. Len(layout[s].items) :
                          i < j => ItemRects(s)[i].x < ItemRects(s)[j].x

\* a pass whose sort moved a sector and an item: the heavier sector came later in the
\* snapshot, and so did the heavier item of a bucket
C6_Witness ==
    /\ view = "layout"
    /\ PositiveWeights
    /\ Len(data.items) = 3
    /\ Len(layout) = 2
    /\ layout[1].name # SectorKey(data.items[1])
    /\ \E s \in 1 .. 2 :
           /\ Len(layout[s].items) = 2
           /\ layout[s].items[1].flexGrow > layout[s].items[2].flexGrow
           /\ \E a, b \in 1 .. 3 :
                  /\ a < b
                  /\ data.items[b].ticker = layout[s].items[1].ticker
                  /\ data.items[a].ticker = layout[s].items[2].ticker

\* both colour mappers have answered with a colour of bucket b
BothIn(b) ==
    /\ bgColor # "" => ClassBucket(bgColor) = b
    /\ fill # "" => FillBucket(fill) = b

BothCalled == bgColor # "" /\ fill # ""

\* C7: colour mapping, non-negative side.  Every change above 3 maps to strong-positive,
\* every change in (0, 3] to positive (3 itself included) and 0 to neutral.
C7_NonNegativeSide ==
    /\ (percent.kind = "posinf" \/ (percent.kind = "num" /\ percent.v > 3 * PctUnit))
           => BothIn("strong-positive")
    /\ (percent.kind = "num" /\ percent.v > 0 /\ percent.v <= 3 * PctUnit)
           => BothIn("positive")
    /\ (percent.kind = "num" /\ percent.v = 0) => BothIn("neutral")

\* both mappers have coloured a change of exactly 3 percent
C7_Witness == percent = Num(3 * PctUnit) /\ BothCalled

\* C8 (as stated): colour mapping, negative side.  Every change in [-3, 0) maps to
\* negative, exactly -3 included, and every change below -3 to strong-negative.
C8_NegativeSide ==
    /\ (percent.kind = "num" /\ percent.v < 0 /\ percent.v >= 0 - 3 * PctUnit)
           => BothIn("negative")
    /\ (percent.kind = "neginf" \/ (percent.kind = "num" /\ percent.v < 0 - 3 * PctUnit))
           => BothIn("strong-negative")

\* C9 (as stated): the colour mapping sends NaN to neutral.
C9_NaNIsNeutral == percent.kind = "nan" => BothIn("neutral")

\* C10: empty-input policy.  Once rendered, either variant shows the "no data"
\* indicator exactly when the snapshot is missing or empty, and then it has grouped and
\* laid out nothing; for every other snapshot it has emitted at least one sector box
\* (the Recharts variant: at least one child of the root).
C10_EmptyInputPolicy ==
    /\ view # "unrendered" =>
           IF data.isNull \/ Len(data.items) = 0
           THEN /\ view = "nodata"
                /\ layout = <<>>
                /\ DOMAIN sectors = {}
                /\ sortedSectors = <<>>
           ELSE /\ view = "layout"
                /\ Len(layout) >= 1
    /\ treeView # "unrendered" =>
           IF data.isNull \/ Len(data.items) = 0
           THEN treeView = "nodata" /\ treeData = <<>>
           ELSE treeView = "treemap" /\ Len(treeData) >= 1

\* both variants rendered with a snapshot that is present but empty
C10_Witness ==
    /\ ~data.isNull
    /\ Len(data.items) = 0
    /\ view = "nodata"
    /\ treeView = "nodata"

\* C11 (as stated): weight sanitizing.  No item of weight <= 0 reaches the layout: none
\* lies in a bucket, none gets a box, and the Recharts variant hands none to <Treemap>.
C11_NonPositiveDropped ==
    /\ view = "layout" =>
           /\ \A k \in DOMAIN sectors :
                  \A j \in 1 .. Len(sectors[k]) : sectors[k][j].weight > 0
           /\ \A s \in 1 .. Len(layout) :
                  \A j \in 1 .. Len(layout[s].items) : layout[s].items[j].flexGrow > 0
    /\ treeView = "treemap" =>
           \A i \in 1 .. Len(treeData) : treeData[i].size > 0

C13_SectorWeights ==
    view = "layout" =>
        /\ DOMAIN sectorWeights = DOMAIN sectors
        /\ \A k \in DOMAIN sectors : sectorWeights[k] = BucketWeight(k)
        /\ \A i \in 1 .. Len(layout) : layout[i].flexGrow = BucketWeight(layout[i].name)
        /\ SumSeq([i \in 1 .. Len(sortedSectors) |-> sectorWeights[sortedSectors[i]]])
               = SnapshotWeight

\* a pass over three weighted items in two sectors, one sector summing two items
C13_Witness ==
    /\ view = "layout"
    /\ PositiveWeights
    /\ Len(data.items) = 3
    /\ Len(layout) = 2
    /\ \E k \in DOMAIN sectors : Len(sectors[k]) = 2 /\ sectorWeights[k] >= 3

\* the rect is the whole rect of its container
WholeRect(r) ==
    /\ r.x = 0
    /\ r.y = 0
    /\ r.w = PercentScale * r.den
    /\ r.h = PercentScale * r.den

\* C15 (as stated): single-item base case.  A one-sector snapshot gives that sector the
\* whole canvas, and a one-item sector gives that item the sector's whole local rect.
C15_SingleItem ==
    (view = "layout" /\ PositiveWeights) =>
        /\ Len(layout) = 1 => WholeRect(SectorRects[1])
        /\ \A s \in 1 .. Len(layout) :
               Len(layout[s].items) = 1 => WholeRect(ItemRects(s)[1])

\* lexicographic rank of the sector keys and of the tickers of the universe
NameRank(n) ==
    CASE n = "Energy" -> 1
      [] n = "Others" -> 2
      [] n = "Tech"   -> 3
      [] OTHER        -> 4
TickerRank(t) ==
    CASE t = "AAPL" -> 1
      [] t = "MSFT" -> 2
      [] t = "XOM"  -> 3
      [] OTHER      -> 4

\* C18 (as stated): sector ordering.  Sectors are ordered by total weight descending,
\* sectors of equal total weight by name ascending.
C18_SectorOrder ==
    view = "layout" =>
        \A i, j \in 1 .. Len(layout) :
            i < j =>
                \/ layout[i].flexGrow > layout[j].flexGrow
                \/ /\ layout[i].flexGrow = layout[j].flexGrow
                   /\ NameRank(layout[i].name) < NameRank(layout[j].name)

\* C19 (as stated): item ordering inside a sector.  Items are ordered by weight
\* descending, items of equal weight by ticker ascending.
C19_ItemOrder ==
    view = "layout" =>
        \A s \in 1 .. Len(layout) :
            \A i, j \in 1 .. Len(layout[s].items) :
                i < j =>
                    \/ layout[s].items[i].flexGrow > layout[s].items[j].flexGrow
                    \/ /\ layout[s].items[i].flexGrow = layout[s].items[j].flexGrow
                       /\ TickerRank(layout[s].items[i].ticker)
                              < TickerRank(layout[s].items[j].ticker)

\* the rects of one container follow the slice-and-dice axis rule for their first two
\* steps: the container is square, so the first split is vertical (the head takes the
\* full height, the rest lies to its right); what remains is narrower than tall, so the
\* second split is horizontal (the third rect lies below the second, not beside it)
AxisRule(rs) ==
    /\ Len(rs) >= 2 =>
           /\ rs[1].h = PercentScale * rs[1].den
           /\ rs[2].x = rs[1].x + rs[1].w
    /\ Len(rs) >= 3 =>
           /\ rs[3].x = rs[2].x
           /\ rs[3].y = rs[2].y + rs[2].h

\* C20 (as stated): split axis.  At every step with more than one remaining item the
\* split is vertical when w >= h and horizontal when w < h.
C20_SplitAxis ==
    (view = "layout" /\ PositiveWeights) =>
        /\ AxisRule(SectorRects)
        /\ \A s \in 1 .. Len(layout) : AxisRule(ItemRects(s))

\* C14 (as stated): end-to-end scenario.  For [AAPL 60 Tech, XOM 40 Energy] the layout
\* has the sectors Tech, Energy in that order, Tech gets {x:0, y:0, w:60, h:100}, Energy
\* gets {x:60, y:0, w:40, h:100}, and each single item fills its sector's local rect.
C14_Scenario ==
    ( /\ view = "layout"
      /\ data.items = << [ticker |-> "AAPL", weight |-> 60,
                          change_percent |-> Num(2 * PctUnit), sector |-> "Tech"],
                         [ticker |-> "XOM", weight |-> 40,
                          change_percent |-> Num(0 - PctUnit), sector |-> "Energy"] >> )
    =>
        /\ Len(layout) = 2
        /\ layout[1].name = "Tech"
        /\ layout[2].name = "Energy"
        /\ LET tech == SectorRects[1]
               enrg == SectorRects[2]
           IN  /\ tech.x = 0 /\ tech.y = 0
               /\ tech.w = 60 * tech.den /\ tech.h = 100 * tech.den
               /\ enrg.x = 60 * enrg.den /\ enrg.y = 0
               /\ enrg.w = 40 * enrg.den /\ enrg.h = 100 * enrg.den
        /\ \A s \in 1 .. 2 :
               /\ Len(layout[s].items) = 1
               /\ WholeRect(ItemRects(s)[1])

\* the boxes lay show the items and nothing else: one item box per item, of the item's
\* weight, in the sector box of the item's sector
LayoutShows(lay, items) ==
    /\ SumSeq([s \in 1 .. Len(lay) |-> Len(lay[s].items)]) = Len(items)
    /\ \A n \in 1 .. Len(items) :
           \E s \in 1 .. Len(lay) :
               /\ lay[s].name = items[n].sector
               /\ \E j \in 1 .. Len(lay[s].items) :
                      /\ lay[s].items[j].ticker = items[n].ticker
                      /\ lay[s].items[j].flexGrow = items[n].weight

C21_NoEmptyBucket ==
    view = "layout" =>
        /\ Len(sortedSectors) >= 1
        /\ \A k \in DOMAIN sectors : Len(sectors[k]) >= 1
        /\ \A s \in 1 .. Len(layout) : Len(layout[s].items) >= 1

\* a pass has made two buckets, one of them with two items
C21_Witness ==
    /\ view = "layout"
    /\ Cardinality(DOMAIN sectors) = 2
    /\ \E k \in DOMAIN sectors : Len(sectors[k]) = 2

\* C22: TickerSearch debounce.  At most one timer is pending, and it is the timer of the
\* latest change of the query; a request goes out only for the query as it stands when
\* the timer expires, unchanged since the timer was set, and never for the empty query;
\* the timer of an empty query clears the results instead.
C22_Debounce ==
    [][/\ Cardinality(timers') <= 1
       /\ \A t \in timers' : t.q = query' /\ t.v = version'
       /\ \A r \in searches' \ searches : r.q = query /\ r.v = version /\ r.q # ""
       /\ (timers' # timers /\ version' = version /\ query = "")
              => searches' = searches /\ results'.items = <<>>]_vars

\* the query changed while a timer was pending, and the only request sent since is the
\* one for the later query
C22_Witness ==
    /\ version = 2
    /\ timers = {}
    /\ searches = {[q |-> query, v |-> 2]}
    /\ results.v = 0

\* C23: TickerSearch shows no stale results.  A response never replaces the results of a
\* later query by those of an earlier one, and while the query stays empty a result list
\* that is empty stays empty.
C23_NoStaleResults ==
    [][/\ results'.v >= results.v
       /\ (query = "" /\ query' = "" /\ results.items = <<>>) => results'.items = <<>>]_vars

\* C24: after handleSelect the dropdown is closed and stays closed until the user next
\* edits the input.
C24_ClosedAfterSelect == lastInput = "select" => ~showDropdown

\* C25: dividend invalidation.  After a successful add, update or delete, dividend data
\* made from a revision of the portfolio older than that mutation is never on display in
\* the dividends tab.
C25_DividendInvalidation ==
    (route = "/portfolio" /\ activeTab = "dividends" /\ ~dividendData.isNull)
        => dividendData.rev >= ackRev

\* C26: portfolio 401 handling.  Whatever the request, handling its 401 answer removes
\* the token, navigates to /login and changes none of items, dividendData, analysis and
\* the form fields.
C26_Auth401 ==
    [][\A r \in requests \ requests' :
           (r.phase = "answered" /\ r.status = "401")
               => /\ token' = FALSE
                  /\ route' = "/login"
                  /\ UNCHANGED <<holdings, dividendData, analysis, formVars>>]_vars

\* a 401 has sent the user to /login from a page that held holdings, dividend data and a
\* holding in the form
C26_Witness ==
    /\ token = FALSE
    /\ route = "/login"
    /\ holdings # {}
    /\ ~dividendData.isNull
    /\ editingTicker # ""

\* C27: the analyzing flag.  analyzing is true exactly while an analyze request is under
\* way, and at most one is.
C27_AnalyzingFlag ==
    /\ analyzing <=> \E r \in requests : r.kind = "analyze"
    /\ Cardinality({r \in requests : r.kind = "analyze"}) <= 1

\* an analysis has come back and the flag is down again
C27_Witness ==
    /\ route = "/portfolio"
    /\ analysis = "report"
    /\ ~analyzing

\* C29: edit mode of the holding form.  A submit made while editingTicker is set is a PUT
\* for that ticker; handling a failed submit leaves editingTicker and the form fields
\* alone; and editingTicker is cleared only by cancel or by handling a successful submit.
C29_EditMode ==
    [][/\ \A r \in requests' \ requests :
              (r.kind = "save" /\ r.phase = "sent" /\ editingTicker # "")
                  => r.method = "PUT" /\ r.ticker = editingTicker
       /\ \A r \in requests \ requests' :
              (r.kind = "save" /\ r.phase = "answered" /\ r.status # "ok")
                  => UNCHANGED formVars
       /\ (editingTicker # "" /\ editingTicker' = "")
              => \/ CancelEdit
                 \/ \E r \in requests \ requests' :
                        r.kind = "save" /\ r.phase = "answered" /\ r.status = "ok"]_vars

\* an update of the holding being edited has failed on the server and its answer is
\* about to be handled
C29_Witness ==
    /\ editingTicker # ""
    /\ \E r \in requests :
           /\ r.kind = "save"
           /\ r.method = "PUT"
           /\ r.ticker = editingTicker
           /\ r.phase = "answered"
           /\ r.status = "500"

\* C28: onboarding wizard.  The step stays within 1..5, at step k the questions of all
\* steps below k are answered, and a profile is submitted only with all four answered.
C28_WizardSteps ==
    /\ step \in 1 .. 5
    /\ \A k \in 1 .. 4 : k < step => answers[StepKey(k)] # ""
    /\ \A r \in profileRequests :
           /\ r.experience_level # ""
           /\ r.primary_goal # ""
           /\ r.investment_horizon # ""
           /\ r.risk_tolerance # ""

\* the user went back from step 5 to step 2 and a profile is on its way
C28_Witness ==
    /\ step = 2
    /\ answers.risk_tolerance # ""
    /\ profileRequests # {}

\* C30: watchlist toggle.  Handling the answer of a toggle changes isInWatchlist only if
\* the server accepted the request, and once every request has been handled the star
\* agrees with the server.
C30_WatchlistToggle ==
    [][/\ \A r \in watchRequests \ watchRequests' :
              (r.phase = "answered" /\ r.kind # "check" /\ r.status # "ok")
                  => isInWatchlist' = isInWatchlist
       /\ ((\E r \in watchRequests : r.kind # "check") /\ watchRequests' = {})
              => isInWatchlist' = serverWatched']_vars

====
